---------------------------- MODULE Spec2Model ----------------------------
(***************************************************************************)
(* Model of the host metrics probe of oiooj/Agent:                         *)
(*   agent/sysinfo/kernel_linux.go  FsKernelMetrics, PsMetrics, the        *)
(*                                  utmp/wtmp decoder and WtmpMetrics      *)
(*   agent/common/ip.go             IP, HasInterfacePrefix                 *)
(*                                                                         *)
(* Bytes are integers 0..255, Go strings built from byte buffers are       *)
(* sequences of bytes, Go strings built by fmt.Sprintf are TLA+ strings.   *)
(* int16/int32 values are the signed integers Go holds.                    *)
(***************************************************************************)
EXTENDS Integers, Sequences, FiniteSets, TLC

VARIABLES
    alive,      \* Spec: FALSE once a collection function has panicked
    returned,   \* Spec: per metric group, -1 (not called yet) or Len(L) returned
    frame,      \* Spec: the call that ran last: its inputs, locals and result
    norm,       \* SpecNorm: the last decode/normalize call, its input and result
    ipst        \* SpecIP: the state of one run of IP()

vars == <<alive, returned, frame, norm, ipst>>

(***************************************************************************)
(* Bounds of the model.                                                    *)
(***************************************************************************)
\* longest wtmp stream, in whole records
MaxRecords == 2
\* longest ps output, in process lines
MaxProcs == 3
\* longest byte buffer handed to getByteLen on its own
MaxBuf == 6
\* most interfaces net.Interfaces() returns, most addresses of one interface
MaxIfaces == 2
MaxAddrs == 2
\* the wall clock (unix seconds) when WtmpMetrics runs
NowSec == 1700000000

(***************************************************************************)
(* Sequence helpers.                                                       *)
(***************************************************************************)
Repeat(b, n) == [i \in 1..n |-> b]

RECURSIVE Flatten(_)
Flatten(ss) == IF ss = <<>> THEN <<>> ELSE Head(ss) \o Flatten(Tail(ss))

\* all sequences over S of length 0..n
RECURSIVE SeqsUpTo(_, _)
SeqsUpTo(S, n) ==
    IF n = 0 THEN {<<>>}
    ELSE LET shorter == SeqsUpTo(S, n - 1)
         IN  shorter \cup {Append(s, x) : s \in {t \in shorter : Len(t) = n - 1}, x \in S}

(***************************************************************************)
(* Go integer operators on signed values.                                  *)
(***************************************************************************)
RECURSIVE Pow2(_)
Pow2(k) == IF k = 0 THEN 1 ELSE 2 * Pow2(k - 1)

\* x >> k on a signed integer: arithmetic shift, rounds toward minus infinity
Shr(x, k) == x \div Pow2(k)

\* x & mask for mask = 2^k - 1, on a two's complement value
AndMask(x, mask) == x % (mask + 1)

(***************************************************************************)
(* fmt verbs %d and %x.                                                    *)
(***************************************************************************)
DecDigits == <<"0", "1", "2", "3", "4", "5", "6", "7", "8", "9">>
HexDigits == <<"0", "1", "2", "3", "4", "5", "6", "7", "8", "9",
               "a", "b", "c", "d", "e", "f">>

RECURSIVE FormatNat(_, _, _)
FormatNat(n, base, digits) ==
    IF n < base THEN digits[n + 1]
    ELSE FormatNat(n \div base, base, digits) \o digits[(n % base) + 1]

FormatDec(n) == IF n < 0 THEN "-" \o FormatNat(-n, 10, DecDigits)
                ELSE FormatNat(n, 10, DecDigits)
FormatHex(n) == IF n < 0 THEN "-" \o FormatNat(-n, 16, HexDigits)
                ELSE FormatNat(n, 16, HexDigits)

(***************************************************************************)
(* The utmp record: sizes and layout (struct Utmp, read by binary.Read     *)
(* field by field, little endian, blank fields skipped over).              *)
(***************************************************************************)
LineSize == 32
NameSize == 32
HostSize == 256
IdSize == 4
ReservedSize == 20

OffType == 0
OffPid == 4
OffDevice == 8
OffId == OffDevice + LineSize
OffUser == OffId + IdSize
OffHost == OffUser + NameSize
OffExit == OffHost + HostSize
OffSession == OffExit + 4
OffTime == OffSession + 4
OffAddr == OffTime + 8
OffReserved == OffAddr + 16
RecordSize == OffReserved + ReservedSize

Field(bs, off, n) == SubSeq(bs, off + 1, off + n)

\* binary.LittleEndian decoding into int16 / int32
Int16LE(b) ==
    LET u == b[1] + 256 * b[2]
    IN  IF u >= 32768 THEN u - 65536 ELSE u
Int32LE(b) ==
    b[1] + 256 * b[2] + 65536 * b[3]
      + 16777216 * (IF b[4] >= 128 THEN b[4] - 256 ELSE b[4])

\* binary.Read(file, binary.LittleEndian, u) on RecordSize bytes
DecodeUtmp(bs) ==
    [ Type    |-> Int16LE(Field(bs, OffType, 2)),
      Pid     |-> Int32LE(Field(bs, OffPid, 4)),
      Device  |-> Field(bs, OffDevice, LineSize),
      Id      |-> Field(bs, OffId, IdSize),
      User    |-> Field(bs, OffUser, NameSize),
      Host    |-> Field(bs, OffHost, HostSize),
      Exit    |-> [ Termination |-> Int16LE(Field(bs, OffExit, 2)),
                    Exit        |-> Int16LE(Field(bs, OffExit + 2, 2)) ],
      Session |-> Int32LE(Field(bs, OffSession, 4)),
      Time    |-> [ Sec  |-> Int32LE(Field(bs, OffTime, 4)),
                    Usec |-> Int32LE(Field(bs, OffTime + 4, 4)) ],
      Addr    |-> [ i \in 1..4 |-> Int32LE(Field(bs, OffAddr + 4 * (i - 1), 4)) ] ]

(***************************************************************************)
(* The normalizer: getByteLen, addrToString, NewGoUtmp.                    *)
(***************************************************************************)
\* bytes.IndexByte(b, c): 0-based index of the first c in b, -1 if none
IndexByte(b, c) ==
    LET hits == {i \in 1..Len(b) : b[i] = c}
    IN  IF hits = {} THEN -1
        ELSE (CHOOSE i \in hits : \A j \in hits : i <= j) - 1

\* variant of getByteLen: a buffer without a null byte counts in full
getByteLenFull(byteArray) ==
    LET n == IndexByte(byteArray, 0)
    IN  IF n = -1 THEN Len(byteArray) ELSE n

getByteLen(byteArray) ==
    LET n == IndexByte(byteArray, 0)
    IN  IF n = -1 THEN 0 ELSE n

\* string(b[:getByteLen(b[:])]), the conversion NewGoUtmp applies to a buffer
CString(b) == SubSeq(b, 1, getByteLen(b))

\* variant of addrToString: the high 16 bits of a word before the low 16
addrToStringHighFirst(addr) ==
    IF addr[2] = 0 /\ addr[3] = 0 /\ addr[4] = 0
    THEN FormatDec(AndMask(addr[1], 255)) \o "."
         \o FormatDec(AndMask(Shr(addr[1], 8), 255)) \o "."
         \o FormatDec(AndMask(Shr(addr[1], 16), 255)) \o "."
         \o FormatDec(AndMask(Shr(addr[1], 24), 255))
    ELSE FormatHex(AndMask(Shr(addr[1], 16), 65535)) \o ":"
         \o FormatHex(AndMask(addr[1], 65535)) \o ":"
         \o FormatHex(AndMask(Shr(addr[2], 16), 65535)) \o ":"
         \o FormatHex(AndMask(addr[2], 65535)) \o ":"
         \o FormatHex(AndMask(Shr(addr[3], 16), 65535)) \o ":"
         \o FormatHex(AndMask(addr[3], 65535)) \o ":"
         \o FormatHex(AndMask(Shr(addr[4], 16), 65535)) \o ":"
         \o FormatHex(AndMask(addr[4], 65535))

\* variant of addrToString: the most significant byte of word 1 first
addrToStringBigEndian(addr) ==
    IF addr[2] = 0 /\ addr[3] = 0 /\ addr[4] = 0
    THEN FormatDec(AndMask(Shr(addr[1], 24), 255)) \o "."
         \o FormatDec(AndMask(Shr(addr[1], 16), 255)) \o "."
         \o FormatDec(AndMask(Shr(addr[1], 8), 255)) \o "."
         \o FormatDec(AndMask(addr[1], 255))
    ELSE FormatHex(AndMask(addr[1], 65535)) \o ":"
         \o FormatHex(AndMask(Shr(addr[1], 16), 65535)) \o ":"
         \o FormatHex(AndMask(addr[2], 65535)) \o ":"
         \o FormatHex(AndMask(Shr(addr[2], 16), 65535)) \o ":"
         \o FormatHex(AndMask(addr[3], 65535)) \o ":"
         \o FormatHex(AndMask(Shr(addr[3], 16), 65535)) \o ":"
         \o FormatHex(AndMask(addr[4], 65535)) \o ":"
         \o FormatHex(AndMask(Shr(addr[4], 16), 65535))

\* addr is 1-indexed here: addr[1] is Go's addr[0]
addrToString(addr) ==
    IF addr[2] = 0 /\ addr[3] = 0 /\ addr[4] = 0
    THEN FormatDec(AndMask(addr[1], 255)) \o "."
         \o FormatDec(AndMask(Shr(addr[1], 8), 255)) \o "."
         \o FormatDec(AndMask(Shr(addr[1], 16), 255)) \o "."
         \o FormatDec(AndMask(Shr(addr[1], 24), 255))
    ELSE FormatHex(AndMask(addr[1], 65535)) \o ":"
         \o FormatHex(AndMask(Shr(addr[1], 16), 65535)) \o ":"
         \o FormatHex(AndMask(addr[2], 65535)) \o ":"
         \o FormatHex(AndMask(Shr(addr[2], 16), 65535)) \o ":"
         \o FormatHex(AndMask(addr[3], 65535)) \o ":"
         \o FormatHex(AndMask(Shr(addr[3], 16), 65535)) \o ":"
         \o FormatHex(AndMask(addr[4], 65535)) \o ":"
         \o FormatHex(AndMask(Shr(addr[4], 16), 65535))

\* time.Unix(sec, 0): an instant as seconds and nanoseconds
TimeUnix(sec, nsec) == [sec |-> sec, nsec |-> nsec]
\* t.After(u)
After(t, u) == t.sec > u.sec \/ (t.sec = u.sec /\ t.nsec > u.nsec)
\* t.Add(time.Minute * m), whole minutes
AddMinutes(t, m) == [sec |-> t.sec + 60 * m, nsec |-> t.nsec]

NewGoUtmp(u) ==
    [ Type    |-> u.Type,
      Pid     |-> u.Pid,
      Device  |-> CString(u.Device),
      Id      |-> CString(u.Id),
      User    |-> CString(u.User),
      Host    |-> CString(u.Host),
      Exit    |-> [Termination |-> u.Exit.Termination, Exit |-> u.Exit.Exit],
      Session |-> u.Session,
      Time    |-> TimeUnix(u.Time.Sec, 0),
      Addr    |-> addrToString(u.Addr) ]

(***************************************************************************)
(* Input streams: records laid out as the Utmp struct is, little endian.   *)
(***************************************************************************)
\* v as n little-endian bytes, two's complement
RECURSIVE EncodeLE(_, _)
EncodeLE(v, n) == IF n = 0 THEN <<>> ELSE <<v % 256>> \o EncodeLE(v \div 256, n - 1)

\* s cut or filled to n bytes
Fit(s, n, fill) == SubSeq(s \o Repeat(fill, n), 1, n)

UtmpBytes(type, pid, device, id, user, host, sec, addr) ==
    EncodeLE(type, 2) \o <<0, 0>> \o EncodeLE(pid, 4)
      \o device \o id \o user \o host
      \o EncodeLE(0, 2) \o EncodeLE(0, 2) \o EncodeLE(pid, 4)
      \o EncodeLE(sec, 4) \o EncodeLE(0, 4)
      \o addr \o Repeat(0, ReservedSize)

UserProcess == 7

\* "abc\0xx", a buffer without any null byte, one starting with null, "root"
BufInputs(n) ==
    { Fit(<<97, 98, 99, 0, 120, 120>>, n, 120),
      Repeat(120, n),
      Fit(<<0>>, n, 120),
      Fit(<<114, 111, 111, 116>>, n, 0) }

AddrByteInputs == {0, 1, 127, 128, 255}

\* the four addr words as 16 bytes
AddrBytes(w1, w2, w3, w4) == w1 \o w2 \o w3 \o w4
ZeroWord == <<0, 0, 0, 0>>

AddrInputs ==
    { AddrBytes(<<a, b, c, d>>, ZeroWord, ZeroWord, ZeroWord) :
          a \in AddrByteInputs, b \in AddrByteInputs,
          c \in AddrByteInputs, d \in AddrByteInputs }
    \cup
    { AddrBytes(ZeroWord, ZeroWord, ZeroWord, <<1, 0, 0, 0>>),
      AddrBytes(ZeroWord, ZeroWord, ZeroWord, <<0, 0, 1, 0>>),
      AddrBytes(<<1, 32, 184, 13>>, ZeroWord, ZeroWord, <<0, 0, 0, 1>>),
      AddrBytes(<<128, 254, 0, 0>>, ZeroWord, <<255, 255, 255, 255>>, <<52, 18, 205, 171>>),
      AddrBytes(<<127, 0, 0, 1>>, <<0, 0, 0, 128>>, ZeroWord, ZeroWord),
      AddrBytes(ZeroWord, ZeroWord, <<1, 0, 0, 0>>, ZeroWord) }

DefaultDevice == Fit(<<112, 116, 115, 47, 48>>, LineSize, 0)
DefaultId == Fit(<<116, 115, 47, 48>>, IdSize, 0)
DefaultUser == Fit(<<98, 111, 98>>, NameSize, 0)
DefaultHost == Fit(<<104, 49>>, HostSize, 0)

NormInputs ==
    { UtmpBytes(UserProcess, 4242, DefaultDevice, DefaultId, DefaultUser, DefaultHost,
                NowSec, a) : a \in AddrInputs }
    \cup
    { UtmpBytes(UserProcess, -1, d, i, u, h, NowSec, AddrBytes(ZeroWord, ZeroWord, ZeroWord, ZeroWord)) :
          d \in BufInputs(LineSize), i \in BufInputs(IdSize),
          u \in BufInputs(NameSize), h \in BufInputs(HostSize) }

BufAlphabet == {0, 97, 98, 99, 120}

(***************************************************************************)
(* SpecNorm: one record decoded and normalized, or getByteLen applied to   *)
(* one buffer.                                                             *)
(***************************************************************************)
NormIdle == [op |-> "idle"]

\* readLine's binary.Read followed by NewGoUtmp
Normalize ==
    /\ norm.op = "idle"
    /\ \E bs \in NormInputs :
          norm' = [op |-> "NewGoUtmp", raw |-> bs, gu |-> NewGoUtmp(DecodeUtmp(bs))]
    /\ UNCHANGED <<alive, returned, frame, ipst>>

\* string(b[:getByteLen(b[:])]) on a buffer of any length
Truncate ==
    /\ norm.op = "idle"
    /\ \E b \in SeqsUpTo(BufAlphabet, MaxBuf) :
          norm' = [op |-> "getByteLen", buf |-> b, n |-> getByteLen(b), str |-> CString(b)]
    /\ UNCHANGED <<alive, returned, frame, ipst>>

(***************************************************************************)
(* Metric samples.  toMetric and common.SetPrecision live outside the      *)
(* files modelled here; they are taken as the sample constructor and as    *)
(* rounding to a number of decimals (the value is kept in hundredths).     *)
(***************************************************************************)
toMetric(name, value, tags) == [Name |-> name, Value |-> value, Tags |-> tags]

\* SetPrecision(num / den, 2), in hundredths, rounded half up
SetPrecision2(num, den) == (2 * 100 * num + den) \div (2 * den)

(***************************************************************************)
(* FsKernelMetrics.  A collaborator outcome is [err, v].                   *)
(***************************************************************************)
Failed == [err |-> TRUE, v |-> 0]
Ok(v) == [err |-> FALSE, v |-> v]
NotCalled == [err |-> FALSE, v |-> -1]

\* variant of FsKernelMetrics: no return after KernelMaxFiles fails
FsKernelMetricsNoReturn(maxRes, allocRes) ==
    LET L1 == <<toMetric("kernel.files.max", maxRes.v, "nil")>>
    IN  IF allocRes.err \/ maxRes.err
        THEN [L |-> L1, log |-> <<"failed to call KernelAllocateFiles:">>]
        ELSE [L |-> L1 \o
                 << toMetric("kernel.files.allocated", allocRes.v, "nil"),
                    toMetric("kernel.files.allocated.percent",
                             SetPrecision2(allocRes.v * 100, maxRes.v), "nil"),
                    toMetric("kernel.files.left", maxRes.v - allocRes.v, "nil") >>,
              log |-> <<>>]

\* the body of FsKernelMetrics, given what KernelMaxFiles returned and what
\* KernelAllocateFiles returns if it is called
FsKernelMetricsRun(maxRes, allocRes) ==
    IF maxRes.err
    THEN [L |-> <<>>, log |-> <<"failed collect kernel metrics:">>]
    ELSE LET L1 == <<toMetric("kernel.files.max", maxRes.v, "nil")>>
         IN  IF allocRes.err
             THEN [L |-> L1, log |-> <<"failed to call KernelAllocateFiles:">>]
             ELSE [L |-> L1 \o
                      << toMetric("kernel.files.allocated", allocRes.v, "nil"),
                         toMetric("kernel.files.allocated.percent",
                                  SetPrecision2(allocRes.v * 100, maxRes.v), "nil"),
                         toMetric("kernel.files.left", maxRes.v - allocRes.v, "nil") >>,
                   log |-> <<>>]

\* the kernel keeps the allocated count at or below the maximum, so the
\* uint64 subtraction maxFiles-allocateFiles does not wrap on these inputs
MaxFilesInputs == {1000, 4096}
AllocFilesInputs == {0, 250, 1000}

(***************************************************************************)
(* PsMetrics.  The output of ps is a sequence of one-character strings.    *)
(***************************************************************************)
IsSpace(c) == c \in {" ", "\n", "\t", "\r"}

\* bytes.Fields(out): the maximal runs of non-space characters
RECURSIVE FieldsFrom(_, _, _, _)
FieldsFrom(out, i, cur, acc) ==
    IF i > Len(out) THEN (IF cur = <<>> THEN acc ELSE Append(acc, cur))
    ELSE IF IsSpace(out[i])
         THEN FieldsFrom(out, i + 1, <<>>, IF cur = <<>> THEN acc ELSE Append(acc, cur))
         ELSE FieldsFrom(out, i + 1, Append(cur, out[i]), acc)
Fields(out) == FieldsFrom(out, 1, <<>>, <<>>)

NamedCounters ==
    {"wait", "blocked", "zombies", "stopped", "running", "sleeping", "idle", "exit", "unknown"}
FieldKeys == NamedCounters \cup {"total"}

\* the counter a state code is tallied under; "" for an unrecognized code
CounterOf(c) ==
    CASE c = "W" -> "wait"
      [] c \in {"U", "D", "L"} -> "blocked"
      [] c = "Z" -> "zombies"
      [] c = "T" -> "stopped"
      [] c = "R" -> "running"
      [] c = "S" -> "sleeping"
      [] c = "I" -> "idle"
      [] c = "X" -> "exit"
      [] c = "?" -> "unknown"
      [] OTHER -> ""

Bump(st, key) == [st EXCEPT !.fields[key] = @ + 1]

PsHeader == <<"S", "T", "A", "T">>

\* variant of the loop body: an unrecognized code skips the total too
PsLoopBodySkipUnknown(st, i, status) ==
    IF i = 0 /\ status = PsHeader THEN st
    ELSE LET key == CounterOf(status[1])
         IN  IF key = ""
             THEN [st EXCEPT !.log = Append(@, status[1])]
             ELSE Bump(Bump(st, key), "total")

\* one iteration of the range loop over bytes.Fields(out); i counts from 0
PsLoopBody(st, i, status) ==
    IF i = 0 /\ status = PsHeader THEN st
    ELSE LET key == CounterOf(status[1])
             st1 == IF key = ""
                    THEN [st EXCEPT !.log = Append(@, status[1])]
                    ELSE Bump(st, key)
         IN  Bump(st1, "total")

RECURSIVE PsLoop(_, _, _)
PsLoop(st, fs, i) ==
    IF i >= Len(fs) THEN st ELSE PsLoop(PsLoopBody(st, i, fs[i + 1]), fs, i + 1)

\* the body of PsMetrics, given what execPS returned
PsMetricsRun(ps) ==
    IF ps.err # ""
    THEN [L |-> <<>>, fields |-> [k \in FieldKeys |-> 0], log |-> <<"failed to call ps command:">>]
    ELSE LET st == PsLoop([fields |-> [k \in FieldKeys |-> 0], log |-> <<>>],
                          Fields(ps.out), 0)
         IN  [L |-> << toMetric("ps.zombies.num", st.fields["zombies"], "nil"),
                       toMetric("ps.running.num", st.fields["running"], "nil"),
                       toMetric("ps.total.num", st.fields["total"], "nil") >>,
              fields |-> st.fields,
              log |-> st.log]

\* the lines ps can print: a header and process state codes
PsLines ==
    { PsHeader, <<"S">>, <<"R">>, <<"Z">>, <<"?">>, <<"D">>, <<"W">>, <<"T">>,
      <<"I">>, <<"X">>, <<"Q">>, <<"S", "s">>, <<"q", "+">> }

PsOutput(lines) == Flatten([i \in 1..Len(lines) |-> lines[i] \o <<"\n">>])

\* execPS: exec.LookPath fails, the command fails, or its output
ExecPSOutcomes ==
    { [err |-> "LookPath", out |-> <<>>], [err |-> "Output", out |-> <<>>] }
    \cup { [err |-> "", out |-> PsOutput(ls)] : ls \in SeqsUpTo(PsLines, MaxProcs) }

(***************************************************************************)
(* The wtmp reader.  A file is [data, failAt]: its bytes, and the offset   *)
(* at which the device fails a read (-1: it never does).                   *)
(***************************************************************************)
\* io.ReadFull of RecordSize bytes at offset pos, as binary.Read calls it
\* variant of ReadFull: the end of the stream is a short read like any other
ReadFullEager(file, pos) ==
    LET avail == Len(file.data) - pos
    IN  IF file.failAt # -1 /\ file.failAt < pos + RecordSize /\ file.failAt <= Len(file.data)
        THEN [err |-> "EIO", bs |-> <<>>]
        ELSE IF avail < RecordSize THEN [err |-> "ErrUnexpectedEOF", bs |-> <<>>]
        ELSE [err |-> "", bs |-> SubSeq(file.data, pos + 1, pos + RecordSize)]

ReadFull(file, pos) ==
    LET avail == Len(file.data) - pos
    IN  IF file.failAt # -1 /\ file.failAt < pos + RecordSize /\ file.failAt <= Len(file.data)
        THEN [err |-> "EIO", bs |-> <<>>]
        ELSE IF avail = 0 THEN [err |-> "EOF", bs |-> <<>>]
        ELSE IF avail < RecordSize THEN [err |-> "ErrUnexpectedEOF", bs |-> <<>>]
        ELSE [err |-> "", bs |-> SubSeq(file.data, pos + 1, pos + RecordSize)]

\* readLine: one record, or the error of binary.Read
readLine(file, pos) ==
    LET r == ReadFull(file, pos)
    IN  IF r.err # "" THEN [err |-> r.err, u |-> "nil"]
        ELSE [err |-> "", u |-> DecodeUtmp(r.bs)]

\* variant of Read: an error returns the records decoded so far
RECURSIVE ReadKeepFrom(_, _, _)
ReadKeepFrom(file, pos, us) ==
    LET r == readLine(file, pos)
    IN  IF r.err # ""
        THEN (IF r.err = "EOF" THEN [us |-> us, err |-> ""]
              ELSE [us |-> us, err |-> r.err])
        ELSE ReadKeepFrom(file, pos + RecordSize, Append(us, r.u))
ReadKeep(file) == ReadKeepFrom(file, 0, <<>>)

\* the loop of Read, from offset pos with us decoded so far
RECURSIVE ReadFrom(_, _, _)
ReadFrom(file, pos, us) ==
    LET r == readLine(file, pos)
    IN  IF r.err # ""
        THEN (IF r.err = "EOF" THEN [us |-> us, err |-> ""]
              ELSE [us |-> <<>>, err |-> r.err])
        ELSE ReadFrom(file, pos + RecordSize, Append(us, r.u))

Read(file) == ReadFrom(file, 0, <<>>)

(***************************************************************************)
(* WtmpMetrics.                                                            *)
(***************************************************************************)
\* the i-th call of time.Now() (i from 0) of a run started at clock.start
Now(clock, i) == [sec |-> clock.start.sec + i * clock.tick, nsec |-> clock.start.nsec]

NilPointer == "nil"

\* one iteration of the range loop over utmps: the samples it appends, or a
\* panic.  m is declared "var m *common.Metric" and never allocated, so the
\* store m.Name = ... goes through a nil pointer.
WtmpLoopBody(gu, now) ==
    LET tmp == NewGoUtmp(gu)
    IN  IF After(tmp.Time, AddMinutes(now, -5))
        THEN LET m == NilPointer
             IN  IF m = NilPointer
                 THEN [panic |-> TRUE, emit |-> <<>>]
                 ELSE [panic |-> FALSE,
                       emit |-> << [ Name |-> "kernel.user.login", Value |-> 1,
                                     Timestamp |-> tmp.Time.sec,
                                     Tags |-> [user |-> tmp.User, host |-> tmp.Host] ] >>]
        ELSE [panic |-> FALSE, emit |-> <<>>]

RECURSIVE WtmpLoop(_, _, _, _)
WtmpLoop(utmps, clock, i, L) ==
    IF i >= Len(utmps) THEN [L |-> L, panic |-> FALSE]
    ELSE LET r == WtmpLoopBody(utmps[i + 1], Now(clock, i))
         IN  IF r.panic THEN [L |-> L, panic |-> TRUE]
             ELSE WtmpLoop(utmps, clock, i + 1, L \o r.emit)

\* the body of WtmpMetrics, given whether os.Open failed, the file and the
\* clock.  Close on the nil *os.File of a failed Open returns an error and
\* does not panic.
WtmpMetricsRun(openErr, file, clock) ==
    IF openErr
    THEN [utmps |-> <<>>, readErr |-> "", L |-> <<>>, panic |-> FALSE,
          log |-> <<"open wtmp file failed:">>]
    ELSE LET r == Read(file)
         IN  IF r.err # ""
             THEN [utmps |-> r.us, readErr |-> r.err, L |-> <<>>, panic |-> FALSE,
                   log |-> <<"read wtmp file failed:">>]
             ELSE LET e == WtmpLoop(r.us, clock, 0, <<>>)
                  IN  [utmps |-> r.us, readErr |-> "", L |-> e.L, panic |-> e.panic,
                       log |-> <<>>]

\* login records: 4 minutes old, 4 minutes old with empty user and host,
\* 6 minutes old, exactly 5 minutes old
NoAddr == AddrBytes(ZeroWord, ZeroWord, ZeroWord, ZeroWord)
WtmpRecords ==
    { UtmpBytes(UserProcess, 4242, DefaultDevice, DefaultId, DefaultUser, DefaultHost,
                NowSec - 240, AddrBytes(<<127, 0, 0, 1>>, ZeroWord, ZeroWord, ZeroWord)),
      UtmpBytes(UserProcess, 17, DefaultDevice, DefaultId,
                Repeat(0, NameSize), Repeat(0, HostSize), NowSec - 240, NoAddr),
      UtmpBytes(UserProcess, 18, DefaultDevice, DefaultId, DefaultUser, DefaultHost,
                NowSec - 360, NoAddr),
      UtmpBytes(UserProcess, 19, DefaultDevice, DefaultId, DefaultUser, DefaultHost,
                NowSec - 300, NoAddr) }

\* the bytes of a last, partly written record
TailLengths == {0, 1, RecordSize - 1}

WtmpFiles ==
    { [data |-> Flatten(rs) \o Repeat(7, t), failAt |-> f] :
          rs \in SeqsUpTo(WtmpRecords, MaxRecords),
          t \in TailLengths,
          f \in {-1, 0, RecordSize} }

Clocks == { [start |-> [sec |-> NowSec, nsec |-> ns], tick |-> tk] : ns \in {0, 1}, tk \in {0, 1} }

(***************************************************************************)
(* IP() and HasInterfacePrefix.  Names are sequences of characters; a      *)
(* net.IP is a sequence of 4 or 16 bytes, nil the empty sequence.          *)
(***************************************************************************)
NilIP == <<>>

\* net.IP.To4
IpTo4(ip) ==
    IF Len(ip) = 4 THEN ip
    ELSE IF /\ Len(ip) = 16
            /\ \A i \in 1..10 : ip[i] = 0
            /\ ip[11] = 255 /\ ip[12] = 255
         THEN SubSeq(ip, 13, 16)
         ELSE NilIP

IPv6loopback == Repeat(0, 15) \o <<1>>

\* net.IP.IsLoopback
IpIsLoopback(ip) ==
    LET ip4 == IpTo4(ip)
    IN  IF ip4 # NilIP THEN ip4[1] = 127 ELSE ip = IPv6loopback

\* net.IP.IsLinkLocalMulticast
IpIsLinkLocalMulticast(ip) ==
    LET ip4 == IpTo4(ip)
    IN  IF ip4 # NilIP THEN ip4[1] = 224 /\ ip4[2] = 0 /\ ip4[3] = 0
        ELSE Len(ip) = 16 /\ ip[1] = 255 /\ ip[2] % 16 = 2

\* net.IP.IsLinkLocalUnicast
IpIsLinkLocalUnicast(ip) ==
    LET ip4 == IpTo4(ip)
    IN  IF ip4 # NilIP THEN ip4[1] = 169 /\ ip4[2] = 254
        ELSE Len(ip) = 16 /\ ip[1] = 254 /\ ip[2] \div 64 = 2

\* net.IP.IsMulticast
IpIsMulticast(ip) ==
    LET ip4 == IpTo4(ip)
    IN  IF ip4 # NilIP THEN ip4[1] \div 16 = 14
        ELSE Len(ip) = 16 /\ ip[1] = 255

\* net.IP.String of a 4-byte address
IpString(ip4) ==
    FormatDec(ip4[1]) \o "." \o FormatDec(ip4[2]) \o "."
      \o FormatDec(ip4[3]) \o "." \o FormatDec(ip4[4])

\* strings.HasPrefix
HasPrefix(str, prefix) ==
    Len(prefix) <= Len(str) /\ SubSeq(str, 1, Len(prefix)) = prefix

\* Conf.IfacePrefix is the process-wide configuration, held in ipst.prefixes
HasInterfacePrefix(ifacename) ==
    \E i \in 1..Len(ipst.prefixes) : HasPrefix(ifacename, ipst.prefixes[i])

\* the type switch on addr: the IP of a *net.IPNet or *net.IPAddr, else nil
AddrIP(addr) ==
    CASE addr.type = "IPNet" -> addr.ip
      [] addr.type = "IPAddr" -> addr.ip
      [] OTHER -> NilIP

\* variant of the IP filter: link-local unicast addresses pass
IPFilterNoLinkLocal(ip) ==
    ip = NilIP \/ IpIsLoopback(ip) \/ IpIsLinkLocalMulticast(ip)

\* the "IP filter" condition: the address is skipped
IPFilter(ip) ==
    ip = NilIP \/ IpIsLoopback(ip) \/ IpIsLinkLocalMulticast(ip) \/ IpIsLinkLocalUnicast(ip)

\* the loop over the addresses of one interface; i counts from 0
RECURSIVE AddrLoop(_, _, _)
AddrLoop(addrs, i, ips) ==
    IF i >= Len(addrs) THEN ips
    ELSE LET ip == AddrIP(addrs[i + 1])
         IN  IF IPFilter(ip) THEN AddrLoop(addrs, i + 1, ips)
             ELSE LET ip4 == IpTo4(ip)
                  IN  IF ip4 = NilIP THEN AddrLoop(addrs, i + 1, ips)
                      ELSE AddrLoop(addrs, i + 1, Append(ips, IpString(ip4)))

\* one iteration of the loop over the interfaces: the new ips, and whether
\* IP() returns the error of iface.Addrs()
IfaceLoopBody(iface, ips) ==
    IF ~iface.up THEN [ips |-> ips, err |-> FALSE]
    ELSE IF iface.loopback THEN [ips |-> ips, err |-> FALSE]
    ELSE IF ~HasInterfacePrefix(iface.name) THEN [ips |-> ips, err |-> FALSE]
    ELSE IF iface.addrsErr THEN [ips |-> ips, err |-> TRUE]
    ELSE [ips |-> AddrLoop(iface.addrs, 0, ips), err |-> FALSE]

Mapped(a, b, c, d) == Repeat(0, 10) \o <<255, 255, a, b, c, d>>

\* 10.0.0.5, 127.0.0.1, 169.254.1.1, 224.0.0.1, ::ffff:239.1.1.1,
\* ::ffff:10.0.0.5, fe80::1, 2001:db8::1, and an address of another type
AddrInputsIP ==
    { [type |-> "IPNet", ip |-> <<10, 0, 0, 5>>],
      [type |-> "IPNet", ip |-> <<127, 0, 0, 1>>],
      [type |-> "IPNet", ip |-> <<169, 254, 1, 1>>],
      [type |-> "IPAddr", ip |-> <<224, 0, 0, 1>>],
      [type |-> "IPAddr", ip |-> Mapped(239, 1, 1, 1)],
      [type |-> "IPNet", ip |-> Mapped(10, 0, 0, 5)],
      [type |-> "IPNet", ip |-> <<254, 128>> \o Repeat(0, 13) \o <<1>>],
      [type |-> "IPNet", ip |-> <<32, 1, 13, 184>> \o Repeat(0, 11) \o <<1>>],
      [type |-> "Other", ip |-> NilIP] }

Eth0 == <<"e", "t", "h", "0">>
IfaceShells ==
    { [up |-> TRUE, loopback |-> FALSE, name |-> Eth0],
      [up |-> FALSE, loopback |-> FALSE, name |-> Eth0],
      [up |-> TRUE, loopback |-> TRUE, name |-> <<"l", "o">>],
      [up |-> TRUE, loopback |-> TRUE, name |-> Eth0],
      [up |-> TRUE, loopback |-> FALSE, name |-> <<"d", "o", "c", "k", "e", "r", "0">>],
      [up |-> TRUE, loopback |-> FALSE, name |-> <<"b", "o", "n", "d", "0">>] }

IfaceInputs ==
    { [up |-> sh.up, loopback |-> sh.loopback, name |-> sh.name,
       addrsErr |-> e, addrs |-> as] :
          sh \in IfaceShells, e \in BOOLEAN, as \in SeqsUpTo(AddrInputsIP, MaxAddrs) }

PrefixInputs == { << <<"e", "t", "h">>, <<"b", "o", "n", "d">> >>, <<>> }

NoIface == [name |-> <<>>]
IpIdle == [pc |-> "idle", prefixes |-> <<>>, left |-> 0, iface |-> NoIface,
           ips |-> <<>>, err |-> FALSE]

\* ips = make([]string, 0); ifaces, e := net.Interfaces()
IPStart ==
    /\ ipst.pc = "idle"
    /\ \E prefixes \in PrefixInputs :
          \/ ipst' = [pc |-> "done", prefixes |-> prefixes, left |-> 0,
                      iface |-> NoIface, ips |-> <<>>, err |-> TRUE]
          \/ \E n \in 0..MaxIfaces :
                ipst' = [pc |-> "range", prefixes |-> prefixes, left |-> n,
                         iface |-> NoIface, ips |-> <<>>, err |-> FALSE]
    /\ UNCHANGED <<alive, returned, frame, norm>>

\* the body of "for _, iface := range ifaces" on the next interface
IPIface ==
    /\ ipst.pc = "range" /\ ipst.left > 0 /\ ipst.iface = NoIface
    /\ \E iface \in IfaceInputs :
          LET r == IfaceLoopBody(iface, ipst.ips)
          IN  ipst' = [ipst EXCEPT !.iface = iface, !.ips = r.ips, !.err = r.err,
                                   !.left = @ - 1,
                                   !.pc = IF r.err THEN "done" ELSE "range"]
    /\ UNCHANGED <<alive, returned, frame, norm>>

\* the range loop moves on to the next interface
IPNextIface ==
    /\ ipst.pc = "range" /\ ipst.iface # NoIface
    /\ ipst' = [ipst EXCEPT !.iface = NoIface]
    /\ UNCHANGED <<alive, returned, frame, norm>>

\* return ips, nil
IPReturn ==
    /\ ipst.pc = "range" /\ ipst.left = 0 /\ ipst.iface = NoIface
    /\ ipst' = [ipst EXCEPT !.pc = "done"]
    /\ UNCHANGED <<alive, returned, frame, norm>>

Groups == {"fs", "ps", "wtmp"}
NoFrame == [fn |-> "none"]

Init ==
    /\ alive = TRUE
    /\ returned = [g \in Groups |-> -1]
    /\ frame = NoFrame
    /\ norm = NormIdle
    /\ ipst = IpIdle

(***************************************************************************)
(* Spec: one collection cycle.  The three collection functions are called  *)
(* once each, in any order, by a caller that takes the samples a function  *)
(* returns before it calls the next; a panic ends the process.             *)
(***************************************************************************)
CanCall(g) == alive /\ frame = NoFrame /\ returned[g] = -1

FsKernelMetrics ==
    /\ CanCall("fs")
    /\ \E maxRes \in {Failed} \cup {Ok(v) : v \in MaxFilesInputs} :
       \E allocRes \in IF maxRes.err THEN {NotCalled}
                       ELSE {Failed} \cup {Ok(v) : v \in AllocFilesInputs} :
          LET r == FsKernelMetricsRun(maxRes, allocRes)
          IN  frame' = [fn |-> "FsKernelMetrics", maxRes |-> maxRes,
                        allocRes |-> allocRes, L |-> r.L, log |-> r.log]
    /\ UNCHANGED <<alive, returned, norm, ipst>>

PsMetrics ==
    /\ CanCall("ps")
    /\ \E ps \in ExecPSOutcomes :
          LET r == PsMetricsRun(ps)
          IN  frame' = [fn |-> "PsMetrics", ps |-> ps, fields |-> r.fields,
                        L |-> r.L, log |-> r.log]
    /\ UNCHANGED <<alive, returned, norm, ipst>>

WtmpMetrics ==
    /\ CanCall("wtmp")
    /\ \E openErr \in BOOLEAN :
       \E file \in IF openErr THEN {[data |-> <<>>, failAt |-> -1]} ELSE WtmpFiles :
       \E clock \in IF openErr THEN {CHOOSE c \in Clocks : TRUE} ELSE Clocks :
          LET r == WtmpMetricsRun(openErr, file, clock)
          IN  /\ frame' = [fn |-> "WtmpMetrics", openErr |-> openErr, file |-> file,
                           clock |-> clock, utmps |-> r.utmps, readErr |-> r.readErr,
                           L |-> r.L, panic |-> r.panic, log |-> r.log]
              /\ alive' = ~r.panic
    /\ UNCHANGED <<returned, norm, ipst>>

GroupOf(fn) ==
    CASE fn = "FsKernelMetrics" -> "fs" [] fn = "PsMetrics" -> "ps" [] fn = "WtmpMetrics" -> "wtmp"

\* the function has returned L: the caller takes the samples
Collect ==
    /\ alive /\ frame # NoFrame
    /\ returned' = [returned EXCEPT ![GroupOf(frame.fn)] = Len(frame.L)]
    /\ frame' = NoFrame
    /\ UNCHANGED <<alive, norm, ipst>>

Next == FsKernelMetrics \/ PsMetrics \/ WtmpMetrics \/ Collect
Spec == Init /\ [][Next]_vars

(***************************************************************************)
(* Claims about the collection functions (checked under Spec).             *)
(***************************************************************************)
InFs == frame.fn = "FsKernelMetrics"
InPs == frame.fn = "PsMetrics"
InWtmp == frame.fn = "WtmpMetrics"
WtmpOpened == InWtmp /\ ~frame.openErr

\* the device fails a read before the end of the stream is seen
DeviceFails(file) == file.failAt # -1 /\ file.failAt <= Len(file.data)

StreamLen == Len(frame.file.data)
Truncated == WtmpOpened /\ ~DeviceFails(frame.file) /\ StreamLen % RecordSize # 0
WholeRecords == WtmpOpened /\ ~DeviceFails(frame.file) /\ StreamLen % RecordSize = 0

\* record i (from 1) of the stream, decoded from its own RecordSize bytes
RecordAt(i) == DecodeUtmp(SubSeq(frame.file.data, (i - 1) * RecordSize + 1, i * RecordSize))
WholeRecordsOfStream == [i \in 1..(StreamLen \div RecordSize) |-> RecordAt(i)]

LoginSample(u) ==
    [ Name |-> "kernel.user.login", Value |-> 1, Timestamp |-> u.Time.Sec,
      Tags |-> [user |-> CString(u.User), host |-> CString(u.Host)] ]

\* record i (from 1) is seen at the (i-1)-th reading of the clock
Recent(u, i) ==
    LET now == Now(frame.clock, i - 1)
    IN  \/ u.Time.Sec > now.sec - 300
        \/ u.Time.Sec = now.sec - 300 /\ 0 > now.nsec

RECURSIVE RecentSamples(_, _)
RecentSamples(us, i) ==
    IF i > Len(us) THEN <<>>
    ELSE (IF Recent(us[i], i) THEN <<LoginSample(us[i])>> ELSE <<>>)
         \o RecentSamples(us, i + 1)

\* C2: WtmpMetrics returns, in stream order, one sample per record later than
\* now minus 5 minutes, named "kernel.user.login", with value 1, the record's
\* unix time, and the record's user and host as tags.
C2_OneSamplePerRecentRecord ==
    (WtmpOpened /\ frame.readErr = "") =>
        /\ ~frame.panic
        /\ frame.L = RecentSamples(frame.utmps, 1)

\* C3: no collection function panics: each call returns normally and the
\* process stays alive for the other groups of the cycle.
C3_NeverFatal ==
    /\ alive
    /\ InWtmp => ~frame.panic

\* C4: a stream of n whole records (n >= 0) makes Read return exactly those
\* n records, in stream order, each decoded from its own bytes, and no error.
C4_WholeRecordsReadCleanly ==
    WholeRecords =>
        /\ frame.readErr = ""
        /\ Len(frame.utmps) = StreamLen \div RecordSize
        /\ frame.utmps = WholeRecordsOfStream
        /\ \A i \in 1..Len(frame.utmps) :
              /\ frame.utmps[i].Type = UserProcess
              /\ frame.utmps[i].Pid \in {4242, 17, 18, 19}
              /\ frame.utmps[i].Time.Sec \in {NowSec - 240, NowSec - 360, NowSec - 300}
              /\ frame.utmps[i].Time.Usec = 0

C4_Witness ==
    /\ WholeRecords
    /\ StreamLen = MaxRecords * RecordSize
    /\ Len(frame.utmps) = MaxRecords
    /\ frame.utmps[1].Pid = 18 /\ frame.utmps[MaxRecords].Pid = 4242

CollaboratorFailed ==
    \/ InFs /\ (frame.maxRes.err \/ frame.allocRes.err)
    \/ InPs /\ frame.ps.err # ""
    \/ InWtmp /\ (frame.openErr \/ frame.readErr # "")

\* C5, as stated: when a collaborator call of a metric group fails, the
\* group's function returns no samples at all.
C5_FailedGroupReturnsNothing == CollaboratorFailed => frame.L = <<>>

\* C5, amended: when a collaborator call of a metric group fails, the group's
\* function returns no samples, except that FsKernelMetrics returns exactly
\* the one sample kernel.files.max when KernelAllocateFiles fails after
\* KernelMaxFiles succeeded.
C5_FailedGroupReturnsNothingButMax ==
    /\ (InFs /\ frame.maxRes.err) => frame.L = <<>>
    /\ (InFs /\ ~frame.maxRes.err /\ frame.allocRes.err) =>
          /\ Len(frame.L) = 1
          /\ frame.L[1].Name = "kernel.files.max"
          /\ frame.L[1].Value = frame.maxRes.v
    /\ (InPs /\ frame.ps.err # "") => frame.L = <<>>
    /\ (InWtmp /\ (frame.openErr \/ frame.readErr # "")) => frame.L = <<>> /\ ~frame.panic

C5_Witness ==
    /\ InFs /\ ~frame.maxRes.err /\ frame.allocRes.err
    /\ Len(frame.L) = 1

RECURSIVE SumOver(_, _)
SumOver(keys, f) ==
    IF keys = {} THEN 0
    ELSE LET k == CHOOSE x \in keys : TRUE
         IN  f[k] + SumOver(keys \ {k}, f)

\* the fields of the ps output that are tallied: all but a leading "STAT"
TalliedIndexes ==
    LET fs == Fields(frame.ps.out)
    IN  {i \in 1..Len(fs) : ~(i = 1 /\ fs[i] = PsHeader)}
Recognized(c) ==
    c \in {"W", "U", "D", "L", "Z", "T", "R", "S", "I", "X", "?"}
UnrecognizedIndexes ==
    {i \in TalliedIndexes : ~Recognized(Fields(frame.ps.out)[i][1])}

\* C9, as stated: an unrecognized state code increments no counter, the
\* total included, so the total equals the sum of the named counters.
C9_TotalIsSumOfNamed ==
    (InPs /\ frame.ps.err = "") =>
        frame.fields["total"] = SumOver(NamedCounters, frame.fields)

\* C9, amended: an unrecognized state code increments no named counter but
\* is counted in the total, and the scan goes on: the total is the number of
\* codes scanned, the sum of the named counters plus the unrecognized codes.
C9_TotalCountsUnrecognized ==
    (InPs /\ frame.ps.err = "") =>
        /\ frame.fields["total"] = Cardinality(TalliedIndexes)
        /\ SumOver(NamedCounters, frame.fields)
              = Cardinality(TalliedIndexes) - Cardinality(UnrecognizedIndexes)
        /\ frame.fields["total"]
              = SumOver(NamedCounters, frame.fields) + Cardinality(UnrecognizedIndexes)
        /\ Len(frame.log) = Cardinality(UnrecognizedIndexes)

C9_Witness ==
    /\ InPs /\ frame.ps.err = ""
    /\ Fields(frame.ps.out) = << <<"Q">>, <<"R">>, <<"Z">> >>
    /\ frame.fields["total"] = 3
    /\ frame.fields["running"] = 1 /\ frame.fields["zombies"] = 1

NextIP == IPStart \/ IPIface \/ IPNextIface \/ IPReturn
SpecIP == Init /\ [][NextIP]_vars

NextNorm == Normalize \/ Truncate
SpecNorm == Init /\ [][NextNorm]_vars

(***************************************************************************)
(* Claims about the normalizer (checked under SpecNorm).                   *)
(***************************************************************************)
Normalized == norm.op = "NewGoUtmp"
RawAddr == Field(norm.raw, OffAddr, 16)
RawWords == DecodeUtmp(norm.raw).Addr

\* C6, as stated: addr words [0, 0, 0, 1] normalize to eight hextets, the
\* eighth "1" and the seven before it "0".
C6_LastHextetOne ==
    (Normalized /\ RawWords = <<0, 0, 0, 1>>) => norm.gu.Addr = "0:0:0:0:0:0:0:1"

\* C6, amended: addr words [0, 0, 0, 1] normalize to eight hextets of which
\* the seventh (low half of word 4) is "1" and all others, the eighth
\* included, are "0"; the eighth hextet is "1" for word 4 = 0x00010000.
C6_SeventhHextetOne ==
    /\ (Normalized /\ RawWords = <<0, 0, 0, 1>>) => norm.gu.Addr = "0:0:0:0:0:0:1:0"
    /\ (Normalized /\ RawWords = <<0, 0, 0, 65536>>) => norm.gu.Addr = "0:0:0:0:0:0:0:1"

C6_Witness == Normalized /\ RawWords = <<0, 0, 0, 1>>

Dotted(b) ==
    FormatDec(b[1]) \o "." \o FormatDec(b[2]) \o "." \o FormatDec(b[3]) \o "." \o FormatDec(b[4])

\* C7: with addr words 2..4 zero, the address string is the dotted quad of
\* the four bytes of word 1, least significant first, each in 0..255, for
\* negative int32 words too; word 1 = 0x0100007F gives "127.0.0.1".
C7_DottedQuad ==
    (Normalized /\ RawWords[2] = 0 /\ RawWords[3] = 0 /\ RawWords[4] = 0) =>
        /\ norm.gu.Addr = Dotted(SubSeq(RawAddr, 1, 4))
        /\ \A i \in 1..4 : RawAddr[i] \in 0..255
        /\ (RawWords[1] = 16777343 => norm.gu.Addr = "127.0.0.1")

C7_Witness ==
    /\ Normalized
    /\ RawWords[1] < 0 /\ RawWords[2] = 0 /\ RawWords[3] = 0 /\ RawWords[4] = 0
    /\ norm.gu.Addr = "1.0.127.255"

HasNull(b) == \E i \in 1..Len(b) : b[i] = 0
\* s is the bytes of b before b's first null byte, or empty when b has none
IsTruncationOf(s, b) ==
    /\ Len(s) <= Len(b)
    /\ \A i \in 1..Len(s) : s[i] = b[i] /\ s[i] # 0
    /\ IF HasNull(b) THEN Len(s) < Len(b) /\ b[Len(s) + 1] = 0 ELSE s = <<>>

\* C8: each of device, lineId, user, host normalizes to the bytes before the
\* buffer's first null byte, and to the empty string when the buffer holds no
\* null byte; ['a','b','c',0,'x','x'] yields "abc".
C8_TruncateAtNull ==
    /\ Normalized =>
          LET u == DecodeUtmp(norm.raw)
          IN  /\ IsTruncationOf(norm.gu.Device, u.Device)
              /\ IsTruncationOf(norm.gu.Id, u.Id)
              /\ IsTruncationOf(norm.gu.User, u.User)
              /\ IsTruncationOf(norm.gu.Host, u.Host)
    /\ norm.op = "getByteLen" =>
          /\ IsTruncationOf(norm.str, norm.buf)
          /\ (norm.buf = <<97, 98, 99, 0, 120, 120>> => norm.str = <<97, 98, 99>>)

C8_Witness ==
    /\ Normalized
    /\ ~HasNull(Field(norm.raw, OffId, IdSize))
    /\ norm.gu.Id = <<>>
    /\ norm.gu.Device = <<97, 98, 99>>

(***************************************************************************)
(* Claims about IP() (checked under SpecIP).                               *)
(***************************************************************************)
\* the interface passes the three interface checks
IfaceEligible(iface) ==
    /\ iface.up
    /\ ~iface.loopback
    /\ \E i \in 1..Len(ipst'.prefixes) :
          /\ Len(ipst'.prefixes[i]) <= Len(iface.name)
          /\ \A j \in 1..Len(ipst'.prefixes[i]) : iface.name[j] = ipst'.prefixes[i][j]

\* the entries ipst'.ips has beyond ipst.ips
NewEntries == (Len(ipst.ips) + 1)..Len(ipst'.ips)
Extends == /\ Len(ipst'.ips) >= Len(ipst.ips)
           /\ SubSeq(ipst'.ips, 1, Len(ipst.ips)) = ipst.ips

\* C10, as stated: every returned address comes from an interface that is
\* up, not loopback and allow-listed by prefix, and is IPv4-mappable, not
\* loopback, not link-local and not multicast of any range.
C10_NoMulticastReturned ==
    [][ /\ Extends
        /\ \A k \in NewEntries :
              /\ IfaceEligible(ipst'.iface)
              /\ \E a \in 1..Len(ipst'.iface.addrs) :
                    LET ip == ipst'.iface.addrs[a].ip
                    IN  /\ IpTo4(ip) # NilIP
                        /\ IpString(IpTo4(ip)) = ipst'.ips[k]
                        /\ ~IpIsLoopback(ip)
                        /\ ~IpIsLinkLocalUnicast(ip)
                        /\ ~IpIsMulticast(ip) ]_vars

\* C10, amended: every returned address comes from an interface that is up,
\* not loopback and allow-listed by prefix, and is IPv4-mappable, not
\* loopback, not link-local unicast and not link-local multicast; multicast
\* addresses outside 224.0.0.0/24 (such as 239.1.1.1) are returned.
C10_NoLinkLocalMulticastReturned ==
    [][ /\ Extends
        /\ \A k \in NewEntries :
              /\ IfaceEligible(ipst'.iface)
              /\ \E a \in 1..Len(ipst'.iface.addrs) :
                    LET ip == ipst'.iface.addrs[a].ip
                    IN  /\ IpTo4(ip) # NilIP
                        /\ IpString(IpTo4(ip)) = ipst'.ips[k]
                        /\ ~IpIsLoopback(ip)
                        /\ ~IpIsLinkLocalUnicast(ip)
                        /\ ~IpIsLinkLocalMulticast(ip) ]_vars

C10_Witness ==
    /\ ipst.pc = "done" /\ ~ipst.err
    /\ ipst.ips = <<"10.0.0.5", "239.1.1.1", "10.0.0.5">>

=============================================================================
